---------------------------- MODULE Spec2Model ----------------------------
(***************************************************************************)
(* Workload-Profiling: the analysis scripts                                *)
(*   infer_addr_range.py      (prog = "iar")                               *)
(*   infer_dominant_range.py  (prog = "idr")                               *)
(*   hot_persistence.py       (prog = "hp")                                *)
(*   plot_phys_addr.py        (prog = "ppa", its ingest loop)              *)
(* as state machines over one run of a script: the arguments and the input *)
(* text are fixed at the start, every loop iteration is one step, and the  *)
(* code after the loop is one step per block.                              *)
(*                                                                         *)
(* Representation.                                                         *)
(*  - A line is the sequence of its whitespace-separated tokens; a token   *)
(*    is a sequence of one-character strings.  No token of the model holds *)
(*    a sign, an underscore or a lone ":" (Python's int() and the regexes  *)
(*    treat those specially).                                              *)
(*  - An address is a Python int, unbounded: here the sequence of its bits,*)
(*    most significant first, without leading zeros (0 is << >>).  Bucket  *)
(*    keys (address >> shift) are small and are integers.                  *)
(*  - A collections.Counter / dict keeps insertion order: a Counter is a   *)
(*    sequence of [k, c] entries in insertion order.                       *)
(*  - A float time is an integer number of tenths of a second.             *)
(*  - None is << >>, a value v that may be None is <<v>>.                  *)
(***************************************************************************)
EXTENDS Integers, Sequences, FiniteSets, TLC

VARIABLES
    prog,           \* which script runs
    args,           \* parse_args(): the argparse.Namespace
    input,          \* the lines of stdin / the input file
    pos,            \* index of the next line the for loop reads
    pc,             \* position in main()
    counts,         \* iar/idr: Counter  bucket -> samples
    mins,           \* iar/idr: dict     bucket -> min address
    maxs,           \* iar/idr: dict     bucket -> max address
    n,              \* iar: accepted lines so far
    baseline,       \* hp: Counter page -> samples in the baseline window
    bins,           \* hp: dict idx -> Counter page -> samples
    t0,             \* hp/ppa: time origin (None until set)
    t_last,         \* hp: last accepted absolute time
    times,          \* ppa: reservoir of relative times
    phys,           \* ppa: reservoir of addresses
    n_seen,         \* ppa: accepted samples so far
    hot,            \* hp: [base_hot, max_idx, pct_still_hot, bin_labels] once computed
    sel,            \* iar: [w, best_s, best_sum] once the window is selected
    out,            \* what the run wrote: stdout lines / the rendered chart
    err,            \* the message of SystemExit(msg) on stderr (None: nothing)
    status          \* exit status (None while running)

vars == <<prog, args, input, pos, pc, counts, mins, maxs, n, baseline, bins,
          t0, t_last, times, phys, n_seen, hot, sel, out, err, status>>

None == << >>
Some(v) == <<v>>
Val(o) == o[1]

Min2(a, b) == IF a < b THEN a ELSE b
Max2(a, b) == IF a > b THEN a ELSE b
SetMin(S) == CHOOSE x \in S : \A y \in S : x <= y
SetMax(S) == CHOOSE x \in S : \A y \in S : x >= y

RECURSIVE SortedSeq(_)
\* sorted(S) for a set of integers
SortedSeq(S) == IF S = {} THEN << >>
                ELSE <<SetMin(S)>> \o SortedSeq(S \ {SetMin(S)})

RECURSIVE SumSeq(_)
SumSeq(s) == IF s = << >> THEN 0 ELSE Head(s) + SumSeq(Tail(s))

RECURSIVE Pow2(_)
Pow2(e) == IF e = 0 THEN 1 ELSE 2 * Pow2(e - 1)

(***************************************************************************)
(* Characters, tokens, Python's int(tok, 16)                               *)
(***************************************************************************)
HexLower == <<"0","1","2","3","4","5","6","7","8","9","a","b","c","d","e","f">>
HexUpper == <<"0","1","2","3","4","5","6","7","8","9","A","B","C","D","E","F">>
DecDigits == {"0","1","2","3","4","5","6","7","8","9"}

IsHexChar(c) == \E i \in 1..16 : HexLower[i] = c \/ HexUpper[i] = c
HexVal(c) == (CHOOSE i \in 1..16 : HexLower[i] = c \/ HexUpper[i] = c) - 1
DecVal(c) == HexVal(c)

AllHex(tok) == tok # << >> /\ \A i \in 1..Len(tok) : IsHexChar(tok[i])
AllDec(tok) == tok # << >> /\ \A i \in 1..Len(tok) : tok[i] \in DecDigits

\* ---- unbounded non-negative integers as bit sequences ----
Nibble(v) == <<(v \div 8) % 2, (v \div 4) % 2, (v \div 2) % 2, v % 2>>

RECURSIVE Strip(_)
Strip(b) == IF b # << >> /\ Head(b) = 0 THEN Strip(Tail(b)) ELSE b

RECURSIVE HexBits(_)
HexBits(tok) == IF tok = << >> THEN << >>
                ELSE Nibble(HexVal(Head(tok))) \o HexBits(Tail(tok))

RECURSIVE LexLt(_, _)
LexLt(a, b) == /\ a # << >>
               /\ \/ Head(a) < Head(b)
                  \/ Head(a) = Head(b) /\ LexLt(Tail(a), Tail(b))

\* a < b, a <= b on addresses
Lt(a, b) == Len(a) < Len(b) \/ (Len(a) = Len(b) /\ LexLt(a, b))
Le(a, b) == a = b \/ Lt(a, b)

Zeros(k) == [i \in 1..k |-> 0]
\* a >> s, a << s
Shr(a, s) == IF Len(a) <= s THEN << >> ELSE SubSeq(a, 1, Len(a) - s)
Shl(a, s) == IF a = << >> THEN << >> ELSE a \o Zeros(s)

RECURSIVE ToInt(_)
\* the value of a short bit sequence as an integer
ToInt(a) == IF a = << >> THEN 0
            ELSE 2 * ToInt(SubSeq(a, 1, Len(a) - 1)) + a[Len(a)]

RECURSIVE FromInt(_)
FromInt(v) == IF v = 0 THEN << >> ELSE FromInt(v \div 2) \o <<v % 2>>

\* int(tok, 16): does it raise ValueError, and its value
Has0x(tok) == Len(tok) >= 2 /\ tok[1] = "0" /\ tok[2] \in {"x", "X"}
Int16Ok(tok) == AllHex(tok) \/ (Has0x(tok) /\ AllHex(SubSeq(tok, 3, Len(tok))))
Int16(tok) == Strip(HexBits(IF AllHex(tok) THEN tok ELSE SubSeq(tok, 3, Len(tok))))

RECURSIVE HexDigitsOf(_)
\* the hex digits of a (bits, length a multiple of 4), most significant first
HexDigitsOf(b) == IF b = << >> THEN << >>
                  ELSE <<HexLower[ToInt(SubSeq(b, 1, 4)) + 1]>>
                       \o HexDigitsOf(SubSeq(b, 5, Len(b)))

\* hex(a) and f"{a:#x}" for a >= 0
Hex(a) == IF a = << >> THEN <<"0", "x", "0">>
          ELSE <<"0", "x">> \o HexDigitsOf(Zeros((4 - (Len(a) % 4)) % 4) \o a)

RECURSIVE RStripColon(_)
\* tok.rstrip(":")
RStripColon(tok) == IF tok # << >> /\ tok[Len(tok)] = ":"
                    THEN RStripColon(SubSeq(tok, 1, Len(tok) - 1)) ELSE tok

(***************************************************************************)
(* collections.Counter and dict                                            *)
(***************************************************************************)
CKeys(cnt) == {cnt[i].k : i \in 1..Len(cnt)}
CIdx(cnt, k) == CHOOSE i \in 1..Len(cnt) : cnt[i].k = k
\* cnt[k] / cnt.get(k, 0)
CGet(cnt, k) == IF k \in CKeys(cnt) THEN cnt[CIdx(cnt, k)].c ELSE 0
\* cnt[k] += 1
CInc(cnt, k) == IF k \in CKeys(cnt)
                THEN [cnt EXCEPT ![CIdx(cnt, k)].c = @ + 1]
                ELSE Append(cnt, [k |-> k, c |-> 1])

RECURSIVE CFilter(_, _)
\* the entries whose key is in keep, order kept (pop / dict comprehension)
CFilter(cnt, keep) ==
    IF cnt = << >> THEN << >>
    ELSE (IF Head(cnt).k \in keep THEN <<Head(cnt)>> ELSE << >>)
         \o CFilter(Tail(cnt), keep)

\* position of entry i in sorted(items, key=count, reverse=True): a stable sort
CRank(cnt, i) == Cardinality({j \in 1..Len(cnt) :
                     cnt[j].c > cnt[i].c \/ (cnt[j].c = cnt[i].c /\ j < i)})
\* Counter.most_common(k): heapq.nlargest(k, items, key=count)
most_common(cnt, k) ==
    IF k <= 0 THEN << >>
    ELSE [r \in 1..Min2(k, Len(cnt)) |->
            cnt[CHOOSE i \in 1..Len(cnt) : CRank(cnt, i) = r - 1]]

\* d[k] = v
DSet(d, k, v) == [x \in (DOMAIN d) \cup {k} |-> IF x = k THEN v ELSE d[x]]
DRestrict(d, keep) == [x \in (DOMAIN d) \cap keep |-> d[x]]
EmptyDict == [x \in {} |-> 0]

(***************************************************************************)
(* infer_addr_range.py                                                     *)
(***************************************************************************)
KERNEL_MIN == Int16(<<"8","0","0","0","0","0","0","0","0","0","0","0","0","0","0","0">>)

\* lines 79-97: the line reaches line 98 (no `continue` is taken)
IAR_Accepts(a, line) ==
    /\ Len(line) >= 3
    /\ RStripColon(line[Len(line) - 1]) = a.event
    /\ line[Len(line)] # <<"0">>
    /\ line[Len(line)] # <<"0", "x", "0">>
    /\ Int16Ok(line[Len(line)])
    /\ Int16(line[Len(line)]) # << >>
    /\ ~(~a.keep_kernel /\ Le(KERNEL_MIN, Int16(line[Len(line)])))

IAR_MinUpdate_LastWins(d, b, a) == DSet(d, b, a)

\* line 100
IAR_MinUpdate(d, b, a) == DSet(d, b, IF b \notin DOMAIN d \/ Lt(a, d[b]) THEN a ELSE d[b])
IAR_MaxUpdate_LastWins(d, b, a) == DSet(d, b, a)

\* line 101
IAR_MaxUpdate(d, b, a) == DSet(d, b, IF b \notin DOMAIN d \/ Lt(d[b], a) THEN a ELSE d[b])

\* lines 98-102 on the stats st = [counts, mins, maxs, n]
IAR_Aggregate(st, a, shift) ==
    LET b == ToInt(Shr(a, shift)) IN
    [counts |-> CInc(st.counts, b),
     mins   |-> IAR_MinUpdate(st.mins, b, a),
     maxs   |-> IAR_MaxUpdate(st.maxs, b, a),
     n      |-> st.n + 1]

\* one iteration of the for loop (lines 78-102)
IAR_Line(st, a, line) ==
    IF IAR_Accepts(a, line)
    THEN IAR_Aggregate(st, Int16(line[Len(line)]), a.bucket_bits)
    ELSE st

\* lines 103-104
IAR_Break(st, a) == st.n >= a.max_lines

IAR_Stats0 == [counts |-> << >>, mins |-> EmptyDict, maxs |-> EmptyDict, n |-> 0]

RECURSIVE IAR_Loop(_, _, _)
\* the whole for loop (lines 78-104) over the lines, from stats st
IAR_Loop(st, a, lines) ==
    IF lines = << >> THEN st
    ELSE LET st1 == IAR_Line(st, a, Head(lines)) IN
         IF IAR_Accepts(a, Head(lines)) /\ IAR_Break(st1, a) THEN st1
         ELSE IAR_Loop(st1, a, Tail(lines))

IAR_ReadLine ==
    /\ prog = "iar" /\ pc = "ingest" /\ pos <= Len(input)
    /\ LET st  == [counts |-> counts, mins |-> mins, maxs |-> maxs, n |-> n]
           st1 == IAR_Line(st, args, input[pos])
       IN /\ counts' = st1.counts
          /\ mins' = st1.mins
          /\ maxs' = st1.maxs
          /\ n' = st1.n
          /\ pc' = IF IAR_Accepts(args, input[pos]) /\ IAR_Break(st1, args)
                   THEN "loaded" ELSE "ingest"
    /\ pos' = pos + 1
    /\ UNCHANGED <<prog, args, input, baseline, bins, t0, t_last, times, phys,
                   n_seen, hot, sel, out, status, err>>

IAR_EndOfInput ==
    /\ prog = "iar" /\ pc = "ingest" /\ pos > Len(input)
    /\ pc' = "loaded"
    /\ UNCHANGED <<prog, args, input, pos, counts, mins, maxs, n, baseline,
                   bins, t0, t_last, times, phys, n_seen, hot, sel, out, err,
                   status>>

IAR_TopKeys_LastInserted(cnt, dt) == {cnt[Len(cnt) + 1 - i].k : i \in 1..Min2(dt, Len(cnt))}

\* sorted(counts.keys(), reverse=True)[:dt]
IAR_TopKeys(cnt, dt) ==
    LET ks == SortedSeq(CKeys(cnt)) IN
    {ks[Len(ks) + 1 - i] : i \in 1..Min2(dt, Len(ks))}

\* lines 110-115: the keys left after the drop
IAR_AfterDrop(cnt, dt) ==
    IF dt > 0 /\ Len(cnt) > dt THEN CKeys(cnt) \ IAR_TopKeys(cnt, dt) ELSE CKeys(cnt)

\* lines 106-117
IAR_DropTop ==
    /\ prog = "iar" /\ pc = "loaded"
    /\ IF counts = << >>
       THEN /\ status' = Some(1) /\ pc' = "done"
            /\ UNCHANGED <<counts, mins, maxs>>
       ELSE LET keep == IAR_AfterDrop(counts, args.drop_top_buckets) IN
            /\ counts' = CFilter(counts, keep)
            /\ mins' = DRestrict(mins, keep)
            /\ maxs' = DRestrict(maxs, keep)
            /\ IF keep = {} THEN status' = Some(1) /\ pc' = "done"
               ELSE status' = status /\ pc' = "filter"
    /\ UNCHANGED <<prog, args, input, pos, n, baseline, bins, t0, t_last, times,
                   phys, n_seen, hot, sel, out, err>>

\* line 122: the keys kept by the threshold
IAR_AfterThreshold(cnt, thr) == {cnt[i].k : i \in {j \in 1..Len(cnt) : cnt[j].c >= thr}}

\* lines 119-126
IAR_MinFilter ==
    /\ prog = "iar" /\ pc = "filter"
    /\ IF args.mode = "window" /\ args.min_bucket_samples > 0
       THEN LET keep == IAR_AfterThreshold(counts, args.min_bucket_samples) IN
            /\ counts' = CFilter(counts, keep)
            /\ mins' = DRestrict(mins, keep)
            /\ maxs' = DRestrict(maxs, keep)
            /\ IF keep = {} THEN status' = Some(1) /\ pc' = "done"
               ELSE status' = status /\ pc' = "select"
       ELSE /\ pc' = "select"
            /\ UNCHANGED <<counts, mins, maxs, status>>
    /\ UNCHANGED <<prog, args, input, pos, n, baseline, bins, t0, t_last, times,
                   phys, n_seen, hot, sel, out, err>>

\* lines 109-117 on the stats st
IAR_DropTopStats(st, a) ==
    LET keep == IAR_AfterDrop(st.counts, a.drop_top_buckets) IN
    [st EXCEPT !.counts = CFilter(@, keep), !.mins = DRestrict(@, keep),
               !.maxs = DRestrict(@, keep)]

\* lines 119-126 on the stats st
IAR_MinFilterStats(st, a) ==
    IF a.mode = "window" /\ a.min_bucket_samples > 0
    THEN LET keep == IAR_AfterThreshold(st.counts, a.min_bucket_samples) IN
         [st EXCEPT !.counts = CFilter(@, keep), !.mins = DRestrict(@, keep),
                    !.maxs = DRestrict(@, keep)]
    ELSE st

Dominant_LastMaximal(cnt) ==
    cnt[SetMax({i \in 1..Len(cnt) : \A j \in 1..Len(cnt) : cnt[j].c <= cnt[i].c})].k

\* counts.most_common(1)[0][0]
Dominant(cnt) == most_common(cnt, 1)[1].k

\* lines 128-131
IAR_Dominant ==
    /\ prog = "iar" /\ pc = "select" /\ args.mode = "dominant"
    /\ LET best == Dominant(counts) IN
       out' = Append(out, <<Hex(mins[best]), Hex(maxs[best]), counts[CIdx(counts, best)].c>>)
    /\ status' = Some(0)
    /\ pc' = "done"
    /\ UNCHANGED <<prog, args, input, pos, counts, mins, maxs, n, baseline,
                   bins, t0, t_last, times, phys, n_seen, hot, sel, err>>

\* sum(counts.get(b, 0) for b in range(s, s + w))
WindowSum(cnt, s, w) == SumSeq([off \in 1..w |-> CGet(cnt, s + off - 1)])

IAR_Cand_ObservedOnly(cnt, w) == CKeys(cnt)

\* lines 155-159
IAR_Cand(cnt, w) == CKeys(cnt) \cup {b - w + 1 : b \in CKeys(cnt)}

IAR_Cands_Unclamped(cnt, w) == SortedSeq(IAR_Cand(cnt, w))

\* lines 161-167: the sorted list of candidate starts
IAR_Cands(cnt, w) ==
    LET b_min == SetMin(CKeys(cnt))
        b_max == SetMax(CKeys(cnt))
        hi0   == b_max - w + 1
        lo    == b_min
        hi    == IF hi0 < lo THEN b_min ELSE hi0
        cands == SortedSeq({s \in IAR_Cand(cnt, w) : lo <= s /\ s <= hi})
    IN IF cands = << >> THEN <<Max2(lo, Min2(b_min, hi))>> ELSE cands

RECURSIVE IAR_Scan_LastWins(_, _, _, _)
IAR_Scan_LastWins(cnt, w, cands, cur) ==
    IF cands = << >> THEN cur
    ELSE LET s == Head(cands)
             ssum == WindowSum(cnt, s, w)
         IN IAR_Scan_LastWins(cnt, w, Tail(cands),
                              IF ssum >= cur.best_sum THEN [best_s |-> s, best_sum |-> ssum]
                              ELSE cur)

RECURSIVE IAR_Scan(_, _, _, _)
\* lines 171-178: the loop over the candidates, from cur = [best_s, best_sum]
IAR_Scan(cnt, w, cands, cur) ==
    IF cands = << >> THEN cur
    ELSE LET s == Head(cands)
             ssum == WindowSum(cnt, s, w)
         IN IAR_Scan(cnt, w, Tail(cands),
                     IF ssum > cur.best_sum THEN [best_s |-> s, best_sum |-> ssum]
                     ELSE cur)

\* lines 148-178
IAR_Best(cnt, w) ==
    LET cands == IAR_Cands(cnt, w) IN
    IAR_Scan(cnt, w, cands, [best_s |-> cands[1], best_sum |-> -1])

\* lines 137-139
IAR_Min(cnt, w) ==
    LET s == SetMin(CKeys(cnt)) IN [best_s |-> s, best_sum |-> WindowSum(cnt, s, w)]

IAR_Max_Unclamped(cnt, w) ==
    LET s == SetMax(CKeys(cnt)) - w + 1 IN [best_s |-> s, best_sum |-> WindowSum(cnt, s, w)]

\* lines 140-142
IAR_Max(cnt, w) ==
    LET s == Max2(SetMin(CKeys(cnt)), SetMax(CKeys(cnt)) - w + 1)
    IN [best_s |-> s, best_sum |-> WindowSum(cnt, s, w)]

IAR_Around_NoUpperClamp(cnt, w) ==
    LET s == Max2(SetMin(CKeys(cnt)), Dominant(cnt) - (w \div 2))
    IN [best_s |-> s, best_sum |-> WindowSum(cnt, s, w)]

\* lines 143-147
IAR_Around(cnt, w) ==
    LET dom == Dominant(cnt)
        s   == Max2(SetMin(CKeys(cnt)), Min2(dom - (w \div 2), SetMax(CKeys(cnt)) - w + 1))
    IN [best_s |-> s, best_sum |-> WindowSum(cnt, s, w)]

\* lines 134-178
IAR_Select(cnt, a) ==
    LET w == Max2(1, a.window_gb) IN
    CASE a.window_strategy = "min" -> IAR_Min(cnt, w)
      [] a.window_strategy = "max" -> IAR_Max(cnt, w)
      [] a.window_strategy = "around" -> IAR_Around(cnt, w)
      [] OTHER -> IAR_Best(cnt, w)

RECURSIVE AddrMin(_)
\* min(list of addresses)
AddrMin(s) == IF Len(s) = 1 THEN s[1]
              ELSE LET m == AddrMin(Tail(s)) IN IF Le(s[1], m) THEN s[1] ELSE m
RECURSIVE AddrMax(_)
AddrMax(s) == IF Len(s) = 1 THEN s[1]
              ELSE LET m == AddrMax(Tail(s)) IN IF Le(m, s[1]) THEN s[1] ELSE m

\* a - 1 for an address a > 0
RECURSIVE AddrPred(_)
AddrPred(a) == IF a[Len(a)] = 1 THEN Strip(SubSeq(a, 1, Len(a) - 1) \o <<0>>)
               ELSE Strip(AddrPred(SubSeq(a, 1, Len(a) - 1)) \o <<1>>)

IAR_WindowLine_Fallback(s, w, best_sum, mn, mx, a) ==
    LET start_addr    == Shl(FromInt(s), a.bucket_bits)
        end_addr_excl == Shl(FromInt(s + w), a.bucket_bits)
    IN IF a.window_output = "full"
       THEN <<Hex(start_addr), Hex(end_addr_excl), best_sum>>
       ELSE <<Hex(start_addr), Hex(AddrPred(end_addr_excl)), best_sum>>

IAR_WindowLine_InclusiveEnd(s, w, best_sum, mn, mx, a) ==
    LET start_addr    == Shl(FromInt(s), a.bucket_bits)
        end_addr_excl == Shl(FromInt(s + w), a.bucket_bits)
        in_window     == SortedSeq({b \in s..(s + w - 1) : b \in DOMAIN mn})
        window_mins   == [i \in 1..Len(in_window) |-> mn[in_window[i]]]
        window_maxs   == [i \in 1..Len(in_window) |-> mx[in_window[i]]]
    IN IF a.window_output = "full"
       THEN <<Hex(start_addr), Hex(AddrPred(end_addr_excl)), best_sum>>
       ELSE <<Hex(IF window_mins # << >> THEN AddrMin(window_mins) ELSE start_addr),
              Hex(IF window_maxs # << >> THEN AddrMin(window_maxs)
                  ELSE AddrPred(end_addr_excl)),
              best_sum>>

\* lines 180-191: the printed line
IAR_WindowLine(s, w, best_sum, mn, mx, a) ==
    LET start_addr    == Shl(FromInt(s), a.bucket_bits)
        end_addr_excl == Shl(FromInt(s + w), a.bucket_bits)
        in_window     == SortedSeq({b \in s..(s + w - 1) : b \in DOMAIN mn})
        window_mins   == [i \in 1..Len(in_window) |-> mn[in_window[i]]]
        window_maxs   == [i \in 1..Len(in_window) |-> mx[in_window[i]]]
    IN IF a.window_output = "full"
       THEN <<Hex(start_addr), Hex(end_addr_excl), best_sum>>
       ELSE <<Hex(IF window_mins # << >> THEN AddrMin(window_mins) ELSE start_addr),
              Hex(IF window_maxs # << >> THEN AddrMax(window_maxs)
                  ELSE AddrPred(end_addr_excl)),
              best_sum>>

\* lines 133-192
IAR_Window ==
    /\ prog = "iar" /\ pc = "select" /\ args.mode = "window"
    /\ LET w == Max2(1, args.window_gb)
           r == IAR_Select(counts, args)
       IN /\ sel' = Some([w |-> w, best_s |-> r.best_s, best_sum |-> r.best_sum])
          /\ out' = Append(out, IAR_WindowLine(r.best_s, w, r.best_sum, mins, maxs, args))
    /\ status' = Some(0)
    /\ pc' = "done"
    /\ UNCHANGED <<prog, args, input, pos, counts, mins, maxs, n, baseline,
                   bins, t0, t_last, times, phys, n_seen, hot, err>>

NextIAR == \/ IAR_ReadLine \/ IAR_EndOfInput \/ IAR_DropTop \/ IAR_MinFilter
           \/ IAR_Dominant \/ IAR_Window


(***************************************************************************)
(* infer_dominant_range.py                                                 *)
(***************************************************************************)
USER_MAX == Int16(<<"0","0","0","0","8","0","0","0","0","0","0","0","0","0","0","0">>)

RECURSIVE HexSuffix(_)
\* the longest suffix of tok made of hex digits
HexSuffix(tok) == IF tok = << >> \/ ~IsHexChar(tok[Len(tok)]) THEN << >>
                  ELSE HexSuffix(SubSeq(tok, 1, Len(tok) - 1)) \o <<tok[Len(tok)]>>

\* LINE_RE.search(line), line 22: ([0-9a-fA-F]+)\s*$ ; group(1) or None
IDR_Search(line) ==
    IF line = << >> \/ HexSuffix(line[Len(line)]) = << >> THEN None
    ELSE Some(HexSuffix(line[Len(line)]))

\* lines 47-54: the line reaches line 55
IDR_Accepts(a, line) ==
    /\ IDR_Search(line) # None
    /\ Int16(Val(IDR_Search(line))) # << >>
    /\ ~(a.user_only /\ Le(USER_MAX, Int16(Val(IDR_Search(line)))))

\* lines 57-58
IDR_MinUpdate(d, b, a) == IF b \notin DOMAIN d \/ Lt(a, d[b]) THEN DSet(d, b, a) ELSE d
\* lines 59-60
IDR_MaxUpdate(d, b, a) == IF b \notin DOMAIN d \/ Lt(d[b], a) THEN DSet(d, b, a) ELSE d

\* one iteration of the for loop (lines 46-60)
IDR_Line(st, a, line) ==
    IF IDR_Accepts(a, line)
    THEN LET addr == Int16(Val(IDR_Search(line)))
             b == ToInt(Shr(addr, a.bucket_bits))
         IN [counts |-> CInc(st.counts, b),
             mins   |-> IDR_MinUpdate(st.mins, b, addr),
             maxs   |-> IDR_MaxUpdate(st.maxs, b, addr),
             n      |-> st.n]
    ELSE st

RECURSIVE IDR_Loop(_, _, _)
IDR_Loop(st, a, lines) ==
    IF lines = << >> THEN st ELSE IDR_Loop(IDR_Line(st, a, Head(lines)), a, Tail(lines))

IDR_ReadLine ==
    /\ prog = "idr" /\ pc = "ingest" /\ pos <= Len(input)
    /\ LET st  == [counts |-> counts, mins |-> mins, maxs |-> maxs, n |-> n]
           st1 == IDR_Line(st, args, input[pos])
       IN /\ counts' = st1.counts
          /\ mins' = st1.mins
          /\ maxs' = st1.maxs
    /\ pos' = pos + 1
    /\ UNCHANGED <<prog, args, input, pc, n, baseline, bins, t0, t_last, times,
                   phys, n_seen, hot, sel, out, status, err>>

\* lines 62-67
IDR_Report ==
    /\ prog = "idr" /\ pc = "ingest" /\ pos > Len(input)
    /\ IF counts = << >>
       THEN status' = Some(1) /\ out' = out
       ELSE LET e == most_common(counts, 1)[1] IN
            /\ out' = Append(out, <<Hex(mins[e.k]), Hex(maxs[e.k]), e.c>>)
            /\ status' = Some(0)
    /\ pc' = "done"
    /\ UNCHANGED <<prog, args, input, pos, counts, mins, maxs, n, baseline,
                   bins, t0, t_last, times, phys, n_seen, hot, sel, err>>

NextIDR == IDR_ReadLine \/ IDR_Report


(***************************************************************************)
(* hot_persistence.py and plot_phys_addr.py: LINE_RE                       *)
(*   ^\s*(?P<time>[0-9]+(?:\.[0-9]+)?)\s*:?\s+(?P<event>\S+?)\s*:?\s+      *)
(*       (?P<addr>[0-9a-fA-F]+)\s*$                                        *)
(* On a line whose tokens hold no lone ":" the regex matches exactly the   *)
(* lines of three tokens <time[:]> <event> <hex>.                          *)
(***************************************************************************)
DotAt(tok) == {i \in 1..Len(tok) : tok[i] = "."}

\* [0-9]+(?:\.[0-9]+)?
IsTimeText(tok) ==
    \/ AllDec(tok)
    \/ /\ Cardinality(DotAt(tok)) = 1
       /\ LET d == CHOOSE i \in DotAt(tok) : TRUE IN
          AllDec(SubSeq(tok, 1, d - 1)) /\ AllDec(SubSeq(tok, d + 1, Len(tok)))

\* the time group of a time token: the token less one trailing ":"
TimeText(tok) == IF tok # << >> /\ tok[Len(tok)] = ":"
                 THEN SubSeq(tok, 1, Len(tok) - 1) ELSE tok

\* LINE_RE.match(line) is not None
RE_Match(line) ==
    /\ Len(line) = 3
    /\ IsTimeText(TimeText(line[1]))
    /\ AllHex(line[3])

RECURSIVE DecInt(_)
DecInt(tok) == IF tok = << >> THEN 0
               ELSE 10 * DecInt(SubSeq(tok, 1, Len(tok) - 1)) + DecVal(tok[Len(tok)])

\* float(m.group("time")) in tenths of a second (one fraction digit at most)
TimeVal(tok) ==
    LET t == TimeText(tok) IN
    IF DotAt(t) = {} THEN 10 * DecInt(t)
    ELSE LET d == CHOOSE i \in DotAt(t) : TRUE IN
         10 * DecInt(SubSeq(t, 1, d - 1)) + DecVal(t[d + 1])

\* int(args.addr_min, 16) if args.addr_min else None
OptAddr(o) == IF o = None THEN None ELSE Some(Int16(Val(o)))

(***************************************************************************)
(* hot_persistence.py                                                      *)
(***************************************************************************)
\* a & page_mask with page_mask = ~(page_size - 1), lines 229 and 262
PageOf(a, page_size) ==
    LET m == page_size - 1
        mbit(i) == IF i <= 30 THEN (m \div Pow2(i)) % 2 ELSE 0
    IN Strip([j \in 1..Len(a) |-> IF mbit(Len(a) - j) = 1 THEN 0 ELSE a[j]])

topk_pages_FirstK(counter, k) == {counter[i].k : i \in 1..Min2(k, Len(counter))}

\* lines 67-71
topk_pages(counter, k) ==
    IF counter = << >> THEN {}
    ELSE {most_common(counter, k)[i].k : i \in 1..Len(most_common(counter, k))}

\* lines 237-250: the line passes the record, event and address filters
HP_Accepts(a, line) ==
    /\ RE_Match(line)
    /\ RStripColon(line[2]) = a.event_filter
    /\ Int16(line[3]) # << >>
    /\ ~(a.addr_min # None /\ Lt(Int16(line[3]), Val(OptAddr(a.addr_min))))
    /\ ~(a.addr_max # None /\ Le(Val(OptAddr(a.addr_max)), Int16(line[3])))

HP_RefEnd(a) == a.ref_start + a.ref_window

HP_Count_InclusiveEnd(st, a, t_abs, addr) ==
    LET t0n  == IF st.t0 = None THEN Some(t_abs) ELSE st.t0
        t    == t_abs - Val(t0n)
        page == PageOf(addr, a.page_size)
        st1  == [st EXCEPT !.t0 = t0n, !.t_last = Some(t_abs)]
    IN IF t < 0 THEN st1
       ELSE IF a.max_time # None /\ t > Val(a.max_time) THEN st1
       ELSE IF a.ref_start <= t /\ t <= HP_RefEnd(a)
            THEN [st1 EXCEPT !.baseline = CInc(@, page)]
       ELSE IF t >= HP_RefEnd(a)
            THEN LET idx == (t - HP_RefEnd(a)) \div a.bin IN
                 [st1 EXCEPT !.bins =
                     DSet(@, idx, CInc(IF idx \in DOMAIN @ THEN @[idx] ELSE << >>, page))]
       ELSE st1

\* lines 252-267 on st = [baseline, bins, t0, t_last] for an accepted sample
HP_Count(st, a, t_abs, addr) ==
    LET t0n  == IF st.t0 = None THEN Some(t_abs) ELSE st.t0
        t    == t_abs - Val(t0n)
        page == PageOf(addr, a.page_size)
        st1  == [st EXCEPT !.t0 = t0n, !.t_last = Some(t_abs)]
    IN IF t < 0 THEN st1
       ELSE IF a.max_time # None /\ t > Val(a.max_time) THEN st1
       ELSE IF a.ref_start <= t /\ t < HP_RefEnd(a)
            THEN [st1 EXCEPT !.baseline = CInc(@, page)]
       ELSE IF t >= HP_RefEnd(a)
            THEN LET idx == (t - HP_RefEnd(a)) \div a.bin IN
                 [st1 EXCEPT !.bins =
                     DSet(@, idx, CInc(IF idx \in DOMAIN @ THEN @[idx] ELSE << >>, page))]
       ELSE st1

\* one iteration of the for loop, lines 236-267
HP_Line(st, a, line) ==
    IF HP_Accepts(a, line)
    THEN HP_Count(st, a, TimeVal(line[1]), Int16(line[3]))
    ELSE st

HP_Stats0 == [baseline |-> << >>, bins |-> EmptyDict, t0 |-> None, t_last |-> None]

RECURSIVE HP_Loop(_, _, _)
HP_Loop(st, a, lines) ==
    IF lines = << >> THEN st ELSE HP_Loop(HP_Line(st, a, Head(lines)), a, Tail(lines))

\* lines 217-224
HP_CheckArgs ==
    /\ prog = "hp" /\ pc = "start"
    /\ IF HP_RefEnd(args) <= args.ref_start
       THEN err' = Some("--ref-window must be > 0") /\ status' = Some(1) /\ pc' = "done"
       ELSE IF args.bin <= 0
       THEN err' = Some("--bin must be > 0") /\ status' = Some(1) /\ pc' = "done"
       ELSE err' = err /\ status' = status /\ pc' = "ingest"
    /\ UNCHANGED <<prog, args, input, pos, counts, mins, maxs, n, baseline, bins,
                   t0, t_last, times, phys, n_seen, hot, sel, out>>

HP_ReadLine ==
    /\ prog = "hp" /\ pc = "ingest" /\ pos <= Len(input)
    /\ LET st  == [baseline |-> baseline, bins |-> bins, t0 |-> t0, t_last |-> t_last]
           st1 == HP_Line(st, args, input[pos])
       IN /\ baseline' = st1.baseline
          /\ bins' = st1.bins
          /\ t0' = st1.t0
          /\ t_last' = st1.t_last
    /\ pos' = pos + 1
    /\ UNCHANGED <<prog, args, input, pc, counts, mins, maxs, n, times, phys,
                   n_seen, hot, sel, out, err, status>>

PctStillHot_OverBin(base_hot, hot_i) ==
    IF hot_i = {} THEN [num |-> 0, den |-> 1]
    ELSE [num |-> 100 * Cardinality(base_hot \cap hot_i), den |-> Cardinality(hot_i)]

\* lines 284-287
PctStillHot(base_hot, hot_i) ==
    IF hot_i = {} THEN [num |-> 0, den |-> 1]
    ELSE [num |-> 100 * Cardinality(base_hot \cap hot_i), den |-> Cardinality(base_hot)]

HP_MaxIdx_Present(b) == Cardinality(DOMAIN b) - 1

\* max(bins.keys(), default=-1), line 276
HP_MaxIdx(b) == IF DOMAIN b = {} THEN -1 ELSE SetMax(DOMAIN b)

\* lines 280-299: the two lists
HP_Series(base_hot, b, max_idx, a) ==
    [pct_still_hot |->
        [i1 \in 1..(max_idx + 1) |->
            PctStillHot(base_hot,
                topk_pages(IF i1 - 1 \in DOMAIN b THEN b[i1 - 1] ELSE << >>, a.topk))],
     bin_labels |->
        [i1 \in 1..(max_idx + 1) |->
            [start_s |-> HP_RefEnd(a) + (i1 - 1) * a.bin,
             end_s   |-> HP_RefEnd(a) + i1 * a.bin]]]

\* lines 269-335
HP_Report ==
    /\ prog = "hp" /\ pc = "ingest" /\ pos > Len(input)
    /\ LET base_hot == topk_pages(baseline, args.topk)
           max_idx  == HP_MaxIdx(bins)
           series   == HP_Series(base_hot, bins, max_idx, args)
       IN IF t0 = None \/ t_last = None
          THEN /\ err' = Some("No samples found for event")
               /\ status' = Some(1) /\ hot' = hot /\ out' = out
          ELSE IF base_hot = {}
          THEN /\ err' = Some("Baseline window has no samples")
               /\ status' = Some(1) /\ hot' = hot /\ out' = out
          ELSE IF max_idx < 0
          THEN /\ err' = Some("No samples found after baseline window")
               /\ status' = Some(1) /\ hot' = hot /\ out' = out
          ELSE /\ hot' = Some([base_hot |-> base_hot, max_idx |-> max_idx,
                               pct_still_hot |-> series.pct_still_hot,
                               bin_labels |-> series.bin_labels])
               /\ out' = Append(out, [values |-> series.pct_still_hot,
                                      labels |-> series.bin_labels])
               /\ status' = Some(0) /\ err' = err
    /\ pc' = "done"
    /\ UNCHANGED <<prog, args, input, pos, counts, mins, maxs, n, baseline, bins,
                   t0, t_last, times, phys, n_seen, sel>>

NextHP == HP_CheckArgs \/ HP_ReadLine \/ HP_Report

(***************************************************************************)
(* plot_phys_addr.py: the ingest loop                                      *)
(***************************************************************************)
\* lines 177-183: the record and event filters
PPA_Matches(a, line) == RE_Match(line) /\ RStripColon(line[2]) = a.event_filter

\* lines 187-193: the address filters
PPA_AddrOk(a, pa) ==
    /\ pa # << >>
    /\ ~(a.addr_min # None /\ Lt(pa, Val(OptAddr(a.addr_min))))
    /\ ~(a.addr_max # None /\ Le(Val(OptAddr(a.addr_max)), pa))

\* lines 184-186: t0 after a line that passed the record and event filters
PPA_Origin(o, t) == IF o = None THEN Some(t) ELSE o

\* lines 176-206
PPA_ReadLine ==
    /\ prog = "ppa" /\ pc = "ingest" /\ pos <= Len(input)
    /\ LET line == input[pos] IN
       IF ~PPA_Matches(args, line)
       THEN UNCHANGED <<t0, times, phys, n_seen>>
       ELSE LET t == TimeVal(line[1])
                pa == Int16(line[3])
            IN /\ t0' = PPA_Origin(t0, t)
               /\ IF ~PPA_AddrOk(args, pa)
                  THEN UNCHANGED <<times, phys, n_seen>>
                  ELSE /\ n_seen' = n_seen + 1
                       /\ IF Len(times) < args.max_points
                          THEN /\ times' = Append(times, t - Val(PPA_Origin(t0, t)))
                               /\ phys' = Append(phys, pa)
                          ELSE \E j \in 0..n_seen :
                                 IF j < args.max_points
                                 THEN /\ times' = [times EXCEPT ![j + 1] = t - Val(PPA_Origin(t0, t))]
                                      /\ phys' = [phys EXCEPT ![j + 1] = pa]
                                 ELSE UNCHANGED <<times, phys>>
    /\ pos' = pos + 1
    /\ UNCHANGED <<prog, args, input, pc, counts, mins, maxs, n, baseline, bins,
                   t_last, hot, sel, out, err, status>>

\* lines 208-209 and 352-357
PPA_Plot ==
    /\ prog = "ppa" /\ pc = "ingest" /\ pos > Len(input)
    /\ IF times = << >>
       THEN err' = Some("No samples found for event") /\ status' = Some(1) /\ out' = out
       ELSE /\ out' = Append(out, [times |-> times, phys |-> phys])
            /\ status' = Some(0) /\ err' = err
    /\ pc' = "done"
    /\ UNCHANGED <<prog, args, input, pos, counts, mins, maxs, n, baseline, bins,
                   t0, t_last, times, phys, n_seen, hot, sel>>

NextPPA == PPA_ReadLine \/ PPA_Plot


(***************************************************************************)
(* topk_pages applied to a counter (the function on its own)               *)
(***************************************************************************)
TopK_Call ==
    /\ prog = "topk" /\ pc = "call"
    /\ hot' = Some([base_hot |-> topk_pages(baseline, args.topk)])
    /\ pc' = "done"
    /\ UNCHANGED <<prog, args, input, pos, counts, mins, maxs, n, baseline, bins,
                   t0, t_last, times, phys, n_seen, sel, out, err, status>>

(***************************************************************************)
(* Inputs                                                                  *)
(***************************************************************************)
MaxInput == 3      \* lines of input, ingest runs
MaxSamples == 3    \* lines of input, range-selection runs
MaxTrace == 3      \* lines of input, hot-persistence runs
MaxPages == 3      \* entries of a counter handed to topk_pages

SeqsUpTo(S, k) == UNION {[1..m -> S] : m \in 0..k}

EV == <<"e", "v">>
KernelTok == <<"8","0","0","0","0","0","0","0","0","0","0","0","0","0","0","0">>

\* the lines of an ingest run: well-formed, filtered and malformed records
IngestLines ==
    { <<<<"1">>, EV, <<"4">>>>,                          \* 1 ev 4
      <<<<"2", ":">>, <<"e", "v", ":">>, <<"5">>>>,      \* 2: ev: 5
      <<<<"3">>, EV, <<"c">>>>,                          \* 3 ev c
      <<<<"1">>, <<"l", "d">>, <<"4">>>>,                \* 1 ld 4       (other event)
      <<<<"2">>, EV, <<"0">>>>,                          \* 2 ev 0       (zero address)
      <<<<"2">>, EV, KernelTok>>,                        \* 2 ev 8000000000000000
      <<<<"z">>, EV, <<"4">>>>,                          \* z ev 4       (no time)
      <<<<"8">>>>,                                       \* 8            (one field)
      <<<<"g","a","r","b","a","g","e">>, <<"t","e","x","t">>, <<"n","o">>,
        <<"n","u","m","b","e","r","s">>>> }              \* garbage text no numbers

\* the lines of a range-selection run, bucket_bits = 2: buckets 1, 1, 2, 7
SmallSamples ==
    { <<<<"1">>, EV, <<"4">>>>, <<<<"2">>, EV, <<"5">>>>,
      <<<<"3">>, EV, <<"8">>>>, <<<<"4">>, EV, <<"1", "c">>>> }

\* bucket_bits = 30: 0x100000000, 0x100000010, 0x200000000
BigSamples ==
    { <<<<"1">>, EV, <<"1","0","0","0","0","0","0","0","0">>>>,
      <<<<"2">>, EV, <<"1","0","0","0","0","0","0","1","0">>>>,
      <<<<"3">>, EV, <<"2","0","0","0","0","0","0","0","0">>>> }

\* the lines of a hot-persistence run: pages 0x1000 (A), 0x2000 (B), 0x3000 (C)
TraceLines ==
    { <<<<"1">>, EV, <<"1","0","0","0">>>>,              \* 1   ev A
      <<<<"1",".","5">>, EV, <<"2","0","0","8">>>>,      \* 1.5 ev B
      <<<<"2">>, EV, <<"1","0","1","0">>>>,              \* 2   ev A
      <<<<"2">>, EV, <<"3","0","0","0">>>>,              \* 2   ev C
      <<<<"4">>, EV, <<"2","0","0","0">>>>,              \* 4   ev B
      <<<<"0">>, EV, <<"3","0","0","0">>>> }             \* 0   ev C   (before the origin)

IAR_Defaults ==
    [event |-> EV, bucket_bits |-> 2, mode |-> "dominant", window_gb |-> 2,
     window_strategy |-> "around", min_bucket_samples |-> 2, window_output |-> "observed",
     max_lines |-> 200000, keep_kernel |-> FALSE, drop_top_buckets |-> 0]

\* bucket keys are integers below 2^31 here: the kernel address is kept only at
\* bucket_bits = 40
IAR_IngestArgs ==
    {[IAR_Defaults EXCEPT !.mode = m, !.max_lines = ml] :
        m \in {"dominant", "window"}, ml \in {2, 200000}}
    \cup {[IAR_Defaults EXCEPT !.bucket_bits = 40, !.keep_kernel = TRUE]}

IAR_WindowArgs ==
    {[IAR_Defaults EXCEPT !.mode = "window", !.window_strategy = st, !.window_gb = w,
                          !.min_bucket_samples = thr, !.drop_top_buckets = dt,
                          !.window_output = o] :
        st \in {"best", "min", "max", "around"}, w \in {1, 2, 4}, thr \in {0, 2},
        dt \in {0, 1}, o \in {"observed", "full"}}

IAR_DominantArgs ==
    {[IAR_Defaults EXCEPT !.drop_top_buckets = dt] : dt \in {0, 1}}

IDR_Args == [bucket_bits |-> 2, user_only |-> TRUE]

HP_Defaults ==
    [event_filter |-> EV, addr_min |-> None, addr_max |-> None, page_size |-> 4,
     ref_start |-> 0, ref_window |-> 10, topk |-> 2, bin |-> 10, max_time |-> None]

\* valid configurations, and one for each value that the script is to refuse
HP_IngestArgs ==
    {[HP_Defaults EXCEPT !.ref_start = rs] : rs \in {0, 10}}
    \cup {[HP_Defaults EXCEPT !.ref_window = 0], [HP_Defaults EXCEPT !.bin = 0],
          [HP_Defaults EXCEPT !.topk = 0]}

\* the last one stops counting inside the baseline window
HP_TraceArgs ==
    {[HP_Defaults EXCEPT !.page_size = 4096, !.topk = k, !.ref_start = rs, !.bin = b,
                         !.max_time = mt] :
        k \in {1, 2}, rs \in {0, 5}, b \in {5, 10}, mt \in {None, Some(20)}}
    \cup {[HP_Defaults EXCEPT !.page_size = 4096, !.ref_start = 5, !.max_time = Some(5)]}

PPA_Args ==
    {[event_filter |-> EV, addr_min |-> None, addr_max |-> None, max_points |-> mp] :
        mp \in {1, 2000000}}

Blank ==
    /\ pos = 1
    /\ counts = << >> /\ mins = EmptyDict /\ maxs = EmptyDict /\ n = 0
    /\ baseline = << >> /\ bins = EmptyDict /\ t0 = None /\ t_last = None
    /\ times = << >> /\ phys = << >> /\ n_seen = 0
    /\ hot = None /\ sel = None /\ out = << >> /\ err = None /\ status = None

\* every script on the ingest lines
Init ==
    /\ input \in SeqsUpTo(IngestLines, MaxInput)
    /\ \/ prog = "iar" /\ args \in IAR_IngestArgs /\ pc = "ingest"
       \/ prog = "idr" /\ args = IDR_Args /\ pc = "ingest"
       \/ prog = "hp" /\ args \in HP_IngestArgs /\ pc = "start"
       \/ prog = "ppa" /\ args \in PPA_Args /\ pc = "ingest"
    /\ Blank

Next == NextIAR \/ NextIDR \/ NextHP \/ NextPPA

Spec == Init /\ [][Next]_vars

\* the range scripts on accepted samples, every selection configuration
InitRange ==
    /\ \/ /\ prog = "iar"
          /\ \/ /\ input \in SeqsUpTo(SmallSamples, MaxSamples)
                /\ args \in IAR_WindowArgs \cup IAR_DominantArgs
             \/ /\ input \in SeqsUpTo(BigSamples, MaxSamples)
                /\ args \in {[a EXCEPT !.bucket_bits = 30] :
                                a \in {x \in IAR_WindowArgs :
                                          /\ x.min_bucket_samples = 0
                                          /\ x.drop_top_buckets = 0}
                                      \cup IAR_DominantArgs}
       \/ /\ prog = "idr"
          /\ \/ input \in SeqsUpTo(SmallSamples, MaxSamples) /\ args = IDR_Args
             \/ /\ input \in SeqsUpTo(BigSamples, MaxSamples)
                /\ args = [IDR_Args EXCEPT !.bucket_bits = 30]
    /\ pc = "ingest"
    /\ Blank

NextRange == NextIAR \/ NextIDR

SpecRange == InitRange /\ [][NextRange]_vars

\* the ingest loop of infer_addr_range alone, to its end
InitIngest ==
    /\ input \in SeqsUpTo(IngestLines, MaxInput)
    /\ prog = "iar" /\ pc = "ingest"
    /\ args \in {a \in IAR_IngestArgs : a.mode = "window" \/ a.keep_kernel}
    /\ Blank

NextIngest == IAR_ReadLine \/ IAR_EndOfInput

SpecIngest == InitIngest /\ [][NextIngest]_vars

\* infer_addr_range through its two filters, every filter configuration
IAR_FilterArgs ==
    {a \in IAR_WindowArgs : a.window_strategy = "around" /\ a.window_gb = 2
                               /\ a.window_output = "observed"}
    \cup IAR_DominantArgs

InitFilter ==
    /\ prog = "iar"
    /\ input \in SeqsUpTo(SmallSamples, MaxSamples)
    /\ args \in IAR_FilterArgs
    /\ pc = "ingest"
    /\ Blank

NextFilter == IAR_ReadLine \/ IAR_EndOfInput \/ IAR_DropTop \/ IAR_MinFilter

SpecFilter == InitFilter /\ [][NextFilter]_vars

\* hot_persistence on timed samples
InitHP ==
    /\ prog = "hp"
    /\ input \in SeqsUpTo(TraceLines, MaxTrace)
    /\ args \in HP_TraceArgs
    /\ pc = "start"
    /\ Blank

SpecHP == InitHP /\ [][NextHP]_vars

\* topk_pages on a counter
TopK_Pages == {<<1>>, <<1, 0>>, <<1, 1>>, <<1, 0, 0>>}
TopK_Counts == {1, 2, 3, 5, 9}
TopK_Counters ==
    {c \in SeqsUpTo([k : TopK_Pages, c : TopK_Counts], MaxPages) :
        \A i, j \in 1..Len(c) : i # j => c[i].k # c[j].k}

InitTopK ==
    /\ prog = "topk"
    /\ input = << >>
    /\ args \in {[topk |-> k] : k \in 1..3}
    /\ pc = "call"
    /\ pos = 1
    /\ counts = << >> /\ mins = EmptyDict /\ maxs = EmptyDict /\ n = 0
    /\ baseline \in TopK_Counters
    /\ bins = EmptyDict /\ t0 = None /\ t_last = None
    /\ times = << >> /\ phys = << >> /\ n_seen = 0
    /\ hot = None /\ sel = None /\ out = << >> /\ err = None /\ status = None

SpecTopK == InitTopK /\ [][TopK_Call]_vars


(***************************************************************************)
(* Properties                                                              *)
(***************************************************************************)
RECURSIVE TotalIn(_, _, _)
\* the samples of the buckets lo <= b < hi, entry by entry
TotalIn(cnt, lo, hi) ==
    IF cnt = << >> THEN 0
    ELSE (IF lo <= Head(cnt).k /\ Head(cnt).k < hi THEN Head(cnt).c ELSE 0)
         + TotalIn(Tail(cnt), lo, hi)

WindowDone == prog = "iar" /\ pc = "done" /\ sel # None

\* C1: window mode, strategy best: the reported count is the total of the
\* selected window [s, s+w) and no window [s', s'+w), for any integer start s',
\* holds more samples (a window that starts below b_min - w or above b_max
\* holds none).
C1_BestIsMaximal ==
    (WindowDone /\ args.window_strategy = "best") =>
        LET w == Val(sel).w
            s == Val(sel).best_s
        IN /\ w = Max2(1, args.window_gb)
           /\ Val(sel).best_sum = TotalIn(counts, s, s + w)
           /\ out[Len(out)][3] = Val(sel).best_sum
           /\ \A s2 \in (SetMin(CKeys(counts)) - w)..(SetMax(CKeys(counts)) + 1) :
                 TotalIn(counts, s2, s2 + w) <= Val(sel).best_sum

\* best has selected a start that is no observed bucket (a candidate b - w + 1)
\* and that beats the window at b_min
C1_Witness ==
    /\ WindowDone /\ args.window_strategy = "best"
    /\ Val(sel).best_s \notin CKeys(counts)
    /\ Val(sel).best_sum >
         TotalIn(counts, SetMin(CKeys(counts)), SetMin(CKeys(counts)) + Val(sel).w)

\* the orders of a sequence
Orders(s) == {[i \in 1..Len(s) |-> s[p[i]]] : p \in Permutations(1..Len(s))}

\* bucket -> (count, min, max)
StatsMap(st) == [b \in CKeys(st.counts) |-> <<CGet(st.counts, b), st.mins[b], st.maxs[b]>>]

CurStats == [counts |-> counts, mins |-> mins, maxs |-> maxs, n |-> n]

NumAccepted == Cardinality({i \in 1..Len(input) : IAR_Accepts(args, input[i])})

\* C2 as stated: when the ingest loop of infer_addr_range has ended, every
\* order of the same input lines gives the same count, min and max per bucket.
C2_AnyOrderSameStats ==
    (prog = "iar" /\ pc = "loaded") =>
        \A p \in Orders(input) :
            StatsMap(IAR_Loop(IAR_Stats0, args, p)) = StatsMap(CurStats)

\* C2 amended: the same, for an input of which at most max_lines lines pass
\* the filters (the loop stops at the max_lines-th accepted line).
C2_AnyOrderSameStatsUncapped ==
    (prog = "iar" /\ pc = "loaded" /\ NumAccepted <= args.max_lines) =>
        \A p \in Orders(input) :
            StatsMap(IAR_Loop(IAR_Stats0, args, p)) = StatsMap(CurStats)

\* the loop has ended on three accepted lines, two of them in one bucket with
\* the larger address first
C2_Witness ==
    /\ prog = "iar" /\ pc = "loaded" /\ NumAccepted <= args.max_lines
    /\ n = 3
    /\ \E b \in CKeys(counts) : CGet(counts, b) = 2 /\ mins[b] # maxs[b]
          /\ \E i \in 1..Len(input) : IAR_Accepts(args, input[i])
                /\ Int16(input[i][3]) = maxs[b]
                /\ \A j \in 1..(i - 1) : ~IAR_Accepts(args, input[j])


HPDone == prog = "hp" /\ pc = "done" /\ hot # None

\* the Top-K hot set of bin i, from the bin counters
HotOfBin(i) == topk_pages(IF i \in DOMAIN bins THEN bins[i] ELSE << >>, args.topk)

\* C3: every percentage num/den of a finished hot_persistence run is within
\* [0, 100], is 100 exactly when the bin's hot set contains the baseline hot
\* set and 0 exactly when the two are disjoint; the baseline hot set it is
\* divided by is never empty.
C3_PercentageBounds ==
    HPDone =>
        LET h == Val(hot) IN
        /\ h.base_hot = topk_pages(baseline, args.topk)
        /\ h.base_hot # {}
        /\ \A i \in 0..h.max_idx :
              LET pct == h.pct_still_hot[i + 1] IN
              /\ pct.den > 0
              /\ 0 <= pct.num /\ pct.num <= 100 * pct.den
              /\ (pct.num = 100 * pct.den) <=> (h.base_hot \subseteq HotOfBin(i))
              /\ (pct.num = 0) <=> (h.base_hot \cap HotOfBin(i) = {})

\* a bin whose percentage is strictly between 0 and 100
C3_Witness ==
    /\ HPDone
    /\ \E i \in 0..Val(hot).max_idx :
          LET pct == Val(hot).pct_still_hot[i + 1] IN
          0 < pct.num /\ pct.num < 100 * pct.den

\* C4: a successful hot_persistence run renders one value per bin index
\* 0..max observed index, in index order; a bin without samples has the value
\* 0, and the value at position i is labelled with the interval
\* [ref_end + i*bin, ref_end + (i+1)*bin).
C4_OneValuePerBin ==
    (prog = "hp" /\ pc = "done" /\ status = Some(0)) =>
        /\ hot # None /\ DOMAIN bins # {}
        /\ out = <<[values |-> Val(hot).pct_still_hot, labels |-> Val(hot).bin_labels]>>
        /\ Len(Val(hot).pct_still_hot) = SetMax(DOMAIN bins) + 1
        /\ Len(Val(hot).bin_labels) = SetMax(DOMAIN bins) + 1
        /\ \A i \in 0..SetMax(DOMAIN bins) :
              /\ (i \notin DOMAIN bins) => Val(hot).pct_still_hot[i + 1].num = 0
              /\ Val(hot).bin_labels[i + 1] =
                    [start_s |-> args.ref_start + args.ref_window + i * args.bin,
                     end_s   |-> args.ref_start + args.ref_window + (i + 1) * args.bin]

\* a successful run with a bin without samples below a bin whose value is not 0
C4_Witness ==
    /\ prog = "hp" /\ pc = "done" /\ status = Some(0)
    /\ \E i, j \in 0..Val(hot).max_idx :
          /\ i < j /\ i \notin DOMAIN bins
          /\ Val(hot).pct_still_hot[j + 1].num > 0


\* the fatal conditions of the two scripts, on a finished run
NoSampleSurvived == (prog = "iar" /\ counts = << >>) \/ (prog = "hp" /\ t0 = None)
BaselineEmpty == prog = "hp" /\ t0 # None /\ baseline = << >>
NothingPastBaseline == prog = "hp" /\ t0 # None /\ DOMAIN bins = {}
Fatal == NoSampleSurvived \/ BaselineEmpty \/ NothingPastBaseline

\* C5: a run of infer_addr_range or hot_persistence that met a fatal condition
\* (no sample survived, every bucket filtered out, empty baseline, nothing past
\* the baseline) ended with a non-zero status and a message, and wrote no result.
C5_FatalIsReported ==
    (prog \in {"iar", "hp"} /\ pc = "done" /\ Fatal) =>
        /\ status # None /\ status # Some(0)
        /\ err # None
        /\ out = << >>

\* the samples of the consumed input that the script accepted, in input order
Accepted(i) ==
    CASE prog = "iar" -> IAR_Accepts(args, input[i])
      [] prog = "idr" -> IDR_Accepts(args, input[i])
      [] prog = "hp"  -> HP_Accepts(args, input[i])
      [] OTHER        -> PPA_Matches(args, input[i]) /\ PPA_AddrOk(args, Int16(input[i][3]))
SampleAddr(i) ==
    IF prog = "idr" THEN Int16(Val(IDR_Search(input[i]))) ELSE Int16(input[i][Len(input[i])])
SampleBucket(i) == ToInt(Shr(SampleAddr(i), args.bucket_bits))
SamplesOf(b) == {i \in 1..Len(input) : Accepted(i) /\ SampleBucket(i) = b}
FirstSample(b) == SetMin(SamplesOf(b))

DominantDone ==
    /\ prog \in {"iar", "idr"} /\ pc = "done" /\ status = Some(0)
    /\ prog = "iar" => args.mode = "dominant"

ExampleInput ==
    << <<<<"1">>, EV, <<"1","0","0","0","0","0","0","0","0">>>>,
       <<<<"2">>, EV, <<"1","0","0","0","0","0","0","1","0">>>>,
       <<<<"3">>, EV, <<"2","0","0","0","0","0","0","0","0">>>> >>
ExampleLine ==
    << <<"0","x","1","0","0","0","0","0","0","0","0">>,
       <<"0","x","1","0","0","0","0","0","0","1","0">>, 2 >>

\* C6: dominant mode prints (min observed address, max observed address,
\* count) of a retained bucket b with the largest count; among the buckets with
\* that count b is the one whose first sample is earliest in the input.  The
\* three example addresses at bucket-bits 30 give 0x100000000 0x100000010 2.
C6_DominantIsFirstMaximal ==
    DominantDone =>
        /\ \E b \in CKeys(counts) :
              /\ out = << <<Hex(AddrMin([i \in 1..Cardinality(SamplesOf(b)) |->
                                     SampleAddr(SortedSeq(SamplesOf(b))[i])])),
                            Hex(AddrMax([i \in 1..Cardinality(SamplesOf(b)) |->
                                     SampleAddr(SortedSeq(SamplesOf(b))[i])])),
                            Cardinality(SamplesOf(b))>> >>
              /\ \A b2 \in CKeys(counts) \ {b} :
                    \/ Cardinality(SamplesOf(b2)) < Cardinality(SamplesOf(b))
                    \/ /\ Cardinality(SamplesOf(b2)) = Cardinality(SamplesOf(b))
                       /\ FirstSample(b) < FirstSample(b2)
        /\ (input = ExampleInput /\ args.bucket_bits = 30) => out = <<ExampleLine>>

\* a tie for the largest count that the higher bucket wins by coming first
C6_Witness ==
    /\ DominantDone
    /\ \E b, b2 \in CKeys(counts) :
          /\ b2 < b
          /\ Cardinality(SamplesOf(b)) = Cardinality(SamplesOf(b2))
          /\ out[1][1] = Hex(mins[b])
          /\ \A b3 \in CKeys(counts) : Cardinality(SamplesOf(b3)) <= Cardinality(SamplesOf(b))

ExampleBaseline ==
    <<[k |-> <<1>>, c |-> 5], [k |-> <<1, 0>>, c |-> 3], [k |-> <<1, 1>>, c |-> 1]>>
ExampleBin == <<[k |-> <<1>>, c |-> 2], [k |-> <<1, 0, 0>>, c |-> 9]>>

\* C7: for K >= 1, topk_pages(counter, K) is a set of min(K, pages of the
\* counter) pages of the counter, none of which has a smaller count than a page
\* left out; the empty counter gives the empty set.  {A:5, B:3, C:1} with K = 2
\* gives {A, B}, and {A:2, D:9} against it 50%.
C7_TopKIsTheKLargest ==
    (prog = "topk" /\ pc = "done") =>
        LET h == Val(hot).base_hot IN
        /\ h \subseteq CKeys(baseline)
        /\ Cardinality(h) = Min2(args.topk, Len(baseline))
        /\ \A p \in h : \A q \in CKeys(baseline) \ h : CGet(baseline, p) >= CGet(baseline, q)
        /\ (baseline = << >>) => h = {}
        /\ (baseline = ExampleBaseline /\ args.topk = 2) =>
              /\ h = {<<1>>, <<1, 0>>}
              /\ PctStillHot(h, topk_pages(ExampleBin, 2)) = [num |-> 100, den |-> 2]

\* K is smaller than the counter and the K largest are not its first K entries
C7_Witness ==
    /\ prog = "topk" /\ pc = "done"
    /\ args.topk < Len(baseline)
    /\ Val(hot).base_hot # {baseline[i].k : i \in 1..args.topk}

\* the spec's record shape: <time[:]> <event> <hex address>
WellFormed(line) == RE_Match(line)

ReadingLine == pc = "ingest" /\ pos <= Len(input)

\* C8: reading a record that has not the 3-field shape changes no statistic
\* (bucket counts, mins, maxs; baseline and bin counters), in any script.
C8_MalformedChangesNothing ==
    [][(prog \in {"iar", "idr", "hp"} /\ ReadingLine /\ ~WellFormed(input[pos]))
          => UNCHANGED <<counts, mins, maxs, n, baseline, bins>>]_vars

\* the lines before line i that passed every filter
AcceptedBefore(i) == {j \in 1..(i - 1) : Accepted(j)}

\* C9: the time origin, once set, is the time of the first line that passed
\* every filter; a rejected line does not set it, and the first accepted sample
\* is emitted with relative time 0.
C9_OriginIsFirstAccepted ==
    /\ (prog \in {"hp", "ppa"} /\ t0 # None) =>
          \E i \in 1..(pos - 1) :
              /\ Accepted(i) /\ AcceptedBefore(i) = {}
              /\ t0 = Some(TimeVal(input[i][1]))
    /\ (prog = "ppa" /\ times # << >> /\ n_seen <= args.max_points) => times[1] = 0

\* the address of a line is 0 or at least 2^63
ZeroOrKernel(line) ==
    /\ line # << >> /\ Int16Ok(line[Len(line)])
    /\ \/ Int16(line[Len(line)]) = << >>
       \/ Le(KERNEL_MIN, Int16(line[Len(line)]))

KeepKernelSet == prog = "iar" /\ args.keep_kernel

\* C10: without the keep-kernel flag, reading a sample whose address is 0 or
\* >= 2^63 changes no bucket stat and no page counter, in any script.
C10_ZeroAndKernelNeverCounted ==
    [][(prog \in {"iar", "idr", "hp"} /\ ~KeepKernelSet /\ ReadingLine
            /\ ZeroOrKernel(input[pos]))
          => UNCHANGED <<counts, mins, maxs, baseline, bins>>]_vars

\* the dt highest keys of a counter (all of them when it has no more than dt)
HighestKeys(cnt, dt) ==
    {b \in CKeys(cnt) : Cardinality({b2 \in CKeys(cnt) : b2 > b}) < dt}

\* the drop-top step of a run that asked for it
DropTopStep ==
    prog = "iar" /\ pc = "loaded" /\ counts # << >> /\ args.drop_top_buckets > 0

\* C11: with drop-top-buckets = N > 0 the drop step removes the N highest keys
\* from counts, mins and maxs and leaves the stats of every other bucket as
\* they were.
C11_DropTopRemovesHighest ==
    [][DropTopStep =>
          LET kept == CKeys(counts) \ HighestKeys(counts, args.drop_top_buckets) IN
          /\ CKeys(counts') = kept
          /\ DOMAIN mins' = kept
          /\ DOMAIN maxs' = kept
          /\ \A b \in kept : /\ CGet(counts', b) = CGet(counts, b)
                             /\ mins'[b] = mins[b]
                             /\ maxs'[b] = maxs[b]]_vars

\* the stats after the drop, for the input lines in the order p
DroppedStats(p) == IAR_DropTopStats(IAR_Loop(IAR_Stats0, args, p), args)

\* the stats after both filters, for the input lines in the order p
FilteredStats(p) == IAR_MinFilterStats(DroppedStats(p), args)

AfterDrop == prog = "iar" /\ pc = "filter"

AfterThreshold ==
    /\ prog = "iar" /\ pc = "select"
    /\ args.mode = "window" /\ args.min_bucket_samples > 0

\* C12 as stated: each filter applied to its own output changes nothing, and
\* the output is the same for every order of the samples.
C12_FiltersIdempotent ==
    /\ AfterDrop =>
          /\ IAR_DropTopStats(CurStats, args) = CurStats
          /\ \A p \in Orders(input) : StatsMap(DroppedStats(p)) = StatsMap(CurStats)
    /\ AfterThreshold =>
          /\ IAR_MinFilterStats(CurStats, args) = CurStats
          /\ \A p \in Orders(input) : StatsMap(FilteredStats(p)) = StatsMap(CurStats)

\* C12 amended: the threshold filter applied to its own output changes
\* nothing; the drop applied to its own output changes nothing exactly when
\* N = 0 or no more than N buckets are left; the output of either filter is
\* the same for every order of the samples (of which at most max_lines pass
\* the line filters).
C12_FiltersOrderFree ==
    /\ AfterDrop =>
          /\ (IAR_DropTopStats(CurStats, args) = CurStats)
                <=> (args.drop_top_buckets = 0 \/ Len(counts) <= args.drop_top_buckets)
          /\ NumAccepted <= args.max_lines =>
                \A p \in Orders(input) : StatsMap(DroppedStats(p)) = StatsMap(CurStats)
    /\ AfterThreshold =>
          /\ IAR_MinFilterStats(CurStats, args) = CurStats
          /\ NumAccepted <= args.max_lines =>
                \A p \in Orders(input) : StatsMap(FilteredStats(p)) = StatsMap(CurStats)

\* both filters have run on three samples, the drop removed the highest bucket
\* and the threshold kept the bucket that holds two samples
C12_Witness ==
    /\ AfterThreshold /\ args.drop_top_buckets = 1 /\ Len(input) = 3
    /\ \E i \in 1..3 : SampleBucket(i) \notin CKeys(counts)
    /\ \E b \in CKeys(counts) : CGet(counts, b) = 2

\* the selected start, the width and the retained key range of a finished
\* window run
SelS == Val(sel).best_s
SelW == Val(sel).w
BMin == SetMin(CKeys(counts))
BMax == SetMax(CKeys(counts))

\* C13: window mode, strategy around: with dom the highest-count retained
\* bucket, the start is dom - floor(w/2) when that lies in [b_min, b_max-w+1],
\* else the nearer end of that range, and the window [s, s+w) contains dom.
C13_AroundIsClampedCentre ==
    (WindowDone /\ args.window_strategy = "around") =>
        LET dom == Dominant(counts)
            c   == dom - (SelW \div 2)
            lo  == BMin
            hi  == BMax - SelW + 1
        IN /\ SelW = Max2(1, args.window_gb)
           /\ \A b \in CKeys(counts) : CGet(counts, b) <= CGet(counts, dom)
           /\ hi >= lo => /\ SelS \in lo..hi
                          /\ c \in lo..hi => SelS = c
                          /\ c < lo => SelS = lo
                          /\ c > hi => SelS = hi
           /\ SelS <= dom /\ dom < SelS + SelW

\* around has clamped the centred start at b_min in a feasible range that holds
\* more than one start
C13_Witness ==
    /\ WindowDone /\ args.window_strategy = "around"
    /\ BMax - SelW + 1 > BMin
    /\ Dominant(counts) - (SelW \div 2) < BMin
    /\ SelS = BMin

\* the printed line of a finished window run, its bounds as addresses
OutLine == out[Len(out)]
OutMin == Int16(OutLine[1])
OutMax == Int16(OutLine[2])

\* a multiple of 2^shift
Aligned(a, shift) == a = Shl(Shr(a, shift), shift)

\* the samples read whose bucket lies in the selected window, and those of
\* them whose bucket was retained by the filters
InWindow == {i \in 1..(pos - 1) : Accepted(i) /\ SampleBucket(i) \in SelS..(SelS + SelW - 1)}
InWindowRetained == {i \in InWindow : SampleBucket(i) \in CKeys(counts)}

\* the printed bounds are the least and the greatest address of the samples S
ObservedBounds(S) ==
    /\ \E i \in S : SampleAddr(i) = OutMin
    /\ \E i \in S : SampleAddr(i) = OutMax
    /\ \A i \in S : Le(OutMin, SampleAddr(i)) /\ Le(SampleAddr(i), OutMax)

\* the printed line against the window, for the samples S
WindowOutput(S) ==
    /\ OutLine[3] = TotalIn(counts, SelS, SelS + SelW)
    /\ args.window_output = "full" =>
          /\ Aligned(OutMin, args.bucket_bits) /\ Aligned(OutMax, args.bucket_bits)
          /\ ToInt(Shr(OutMin, args.bucket_bits)) = SelS
          /\ ToInt(Shr(OutMax, args.bucket_bits)) = SelS + SelW
    /\ args.window_output = "observed" =>
          /\ ObservedBounds(S)
          /\ Le(Shl(FromInt(SelS), args.bucket_bits), OutMin)
          /\ Le(OutMin, OutMax)
          /\ Lt(OutMax, Shl(FromInt(SelS + SelW), args.bucket_bits))

HP_InvalidConfig ==
    prog = "hp" /\ (args.ref_window <= 0 \/ args.bin <= 0 \/ args.topk <= 0)

\* C15: hot_persistence with a baseline duration, a bin width or a Top-K that
\* is not positive reads no input record and writes no output, and ends with a
\* non-zero status and a message.
C15_InvalidConfigFailsFast ==
    HP_InvalidConfig =>
        /\ pos = 1
        /\ out = << >>
        /\ pc = "done" => (status = Some(1) /\ err # None)

\* a window run has passed the filters with some bucket retained, and the
\* requested width exceeds the retained key range
WiderThanSpan ==
    /\ prog = "iar" /\ pc = "done" /\ args.mode = "window" /\ counts # << >>
    /\ Max2(1, args.window_gb) > BMax - BMin + 1

HP_Read == {i \in 1..(pos - 1) : HP_Accepts(args, input[i])}
RelTime(i) == TimeVal(input[i][1]) - Val(t0)
SamplePage(i) == PageOf(Int16(input[i][3]), args.page_size)

UpToMaxTime(t) == args.max_time = None \/ t <= Val(args.max_time)

\* where the claim puts a sample of relative time t
InBaselineWindow(t) == args.ref_start <= t /\ t < HP_RefEnd(args)
InBin(t, i) ==
    /\ t >= HP_RefEnd(args) /\ UpToMaxTime(t)
    /\ i >= 0
    /\ HP_RefEnd(args) + i * args.bin <= t
    /\ t < HP_RefEnd(args) + (i + 1) * args.bin

\* the counters hold, page by page, the samples of R that Base admits in
\* the baseline and the samples of each bin index in that bin, and nothing
\* else; T and P give the relative time and the page of each sample of R
Counted(R, T, P, Base(_)) ==
    LET B      == {i \in R : Base(T[i])}
        pages  == {P[i] : i \in R}
        xs     == 0..(SetMax({0} \cup {T[i] : i \in R}) \div args.bin)
        binOf  == [x \in xs |-> {i \in R : InBin(T[i], x)}]
    IN /\ \A p \in pages \cup CKeys(baseline) :
             CGet(baseline, p) = Cardinality({i \in B : P[i] = p})
       /\ DOMAIN bins = {x \in xs : binOf[x] # {}}
       /\ \A x \in DOMAIN bins :
             \A p \in pages \cup CKeys(bins[x]) :
                 CGet(bins[x], p) = Cardinality({i \in binOf[x] : P[i] = p})
       /\ \A i \in B : \A x \in xs : i \notin binOf[x]

CountedAs(Base(_)) ==
    LET R == HP_Read IN
    Counted(R, [i \in R |-> RelTime(i)], [i \in R |-> SamplePage(i)], Base)

InBaselineUpToMaxTime(t) == InBaselineWindow(t) /\ UpToMaxTime(t)

\* C17 as stated: an accepted sample of relative time t is counted in the
\* baseline iff ref_start <= t < ref_end, in bin i iff t >= ref_end, t <=
\* max_time and ref_end + i*bin <= t < ref_end + (i+1)*bin with i >= 0, and
\* nowhere otherwise; never in both.
C17_CountedInOnePlace ==
    (prog = "hp" /\ pc = "ingest") =>
        CountedAs(InBaselineWindow)

\* C17 amended: the same, the baseline taking a sample only when t <= max_time
\* as well.
C17_CountedInOnePlaceUpToMaxTime ==
    (prog = "hp" /\ pc = "ingest") =>
        CountedAs(InBaselineUpToMaxTime)

\* three samples read: one in the baseline, one in a bin, one before the origin
C17_Witness ==
    /\ prog = "hp" /\ pc = "ingest" /\ pos = 4
    /\ baseline # << >> /\ DOMAIN bins # {}
    /\ \E i \in HP_Read : RelTime(i) < 0

\* the bucket stats are consistent
StatsConsistent ==
    /\ DOMAIN mins = CKeys(counts)
    /\ DOMAIN maxs = CKeys(counts)
    /\ \A b \in CKeys(counts) :
          /\ CGet(counts, b) >= 1
          /\ Le(mins[b], maxs[b])
          /\ ToInt(Shr(mins[b], args.bucket_bits)) = b
          /\ ToInt(Shr(maxs[b], args.bucket_bits)) = b

\* the keys whose stats a step of the ingest loop may touch: the bucket of the
\* line read, when the line is accepted
OwnBucket ==
    IF IAR_Accepts(args, input[pos]) THEN {SampleBucket(pos)} ELSE {}

\* a step of the ingest loop only grows the stats, and only those of the
\* sample's own bucket
StatsGrow ==
    /\ CKeys(counts) \subseteq CKeys(counts')
    /\ CKeys(counts') \ CKeys(counts) \subseteq OwnBucket
    /\ \A b \in CKeys(counts) :
          /\ CGet(counts', b) >= CGet(counts, b)
          /\ Le(mins'[b], mins[b])
          /\ Le(maxs[b], maxs'[b])
          /\ b \notin OwnBucket =>
                /\ CGet(counts', b) = CGet(counts, b)
                /\ mins'[b] = mins[b]
                /\ maxs'[b] = maxs[b]

\* C18: before and after every step of the infer_addr_range ingest loop
\* counts, mins and maxs have the same keys, every count is >= 1, mins[b] <=
\* maxs[b] and both lie in bucket b; a step decreases no count, increases no
\* min, decreases no max and changes the stats of the sample's own bucket only.
C18_StatsConsistentAndGrowing ==
    /\ [](prog = "iar" /\ pc \in {"ingest", "loaded"} => StatsConsistent)
    /\ [][(prog = "iar" /\ pc = "ingest" /\ pos <= Len(input)) => StatsGrow]_vars

\* two buckets, one of them holding two samples of different addresses
C18_Witness ==
    /\ prog = "iar" /\ pc = "ingest" /\ pos = 4
    /\ Len(counts) = 2
    /\ \E b \in CKeys(counts) : CGet(counts, b) = 2 /\ Lt(mins[b], maxs[b])

\* the total of all retained counts
TotalRetained == TotalIn(counts, BMin, BMax + 1)

\* C19: window mode, the width exceeding the retained key range: each of the
\* four strategies selects the start b_min, the window [b_min, b_min+w) holds
\* every retained bucket, the reported count is the total of all retained
\* counts and the status is 0.
C19_TooWideAllStrategiesAgree ==
    WiderThanSpan =>
        /\ sel # None /\ SelS = BMin
        /\ \A st \in {"min", "max", "around", "best"} :
              IAR_Select(counts, [args EXCEPT !.window_strategy = st]).best_s = BMin
        /\ \A b \in CKeys(counts) : SelS <= b /\ b < SelS + SelW
        /\ Val(sel).best_sum = TotalRetained
        /\ OutLine[3] = TotalRetained
        /\ status = Some(0)

\* strategy best on two retained buckets and a width of 4
C19_Witness ==
    /\ WiderThanSpan /\ args.window_strategy = "best"
    /\ Cardinality(CKeys(counts)) = 2 /\ SelW = 4
    /\ TotalRetained = 3

\* C20: window mode, any strategy: the start is >= b_min and the window
\* [s, s+w) holds a retained bucket, so the reported count is >= 1 (>= the
\* threshold when the minimum-count filter is active) and the bounds printed by
\* observed are addresses of samples, never the computed bounds.
C20_WindowHoldsARetainedBucket ==
    WindowDone =>
        /\ SelS >= BMin
        /\ \E b \in CKeys(counts) : SelS <= b /\ b < SelS + SelW
        /\ OutLine[3] >= 1
        /\ args.min_bucket_samples > 0 => OutLine[3] >= args.min_bucket_samples
        /\ args.window_output = "observed" =>
              /\ \E i \in InWindowRetained : SampleAddr(i) = OutMin
              /\ \E i \in InWindowRetained : SampleAddr(i) = OutMax

\* observed output of a window of width 1 that best has put above b_min
C20_Witness ==
    /\ WindowDone /\ args.window_strategy = "best" /\ args.window_output = "observed"
    /\ SelW = 1 /\ SelS > BMin
    /\ Val(sel).best_sum = 2

\* the feasible candidate starts of strategy best on the retained buckets
FeasibleCands == {IAR_Cands(counts, SelW)[i] : i \in 1..Len(IAR_Cands(counts, SelW))}

\* the candidates whose window holds the largest total
MaximalCands ==
    {s \in FeasibleCands :
        \A s2 \in FeasibleCands :
            TotalIn(counts, s2, s2 + SelW) <= TotalIn(counts, s, s + SelW)}

\* C21: window mode, strategy best: the selected start is the lowest of the
\* feasible candidate starts whose window total is maximal, and the selection
\* is the same for every insertion order of the retained (bucket, count) pairs
\* and for every arrival order of the samples.
C21_BestTakesLowestMaximal ==
    (WindowDone /\ args.window_strategy = "best") =>
        /\ SelS \in MaximalCands
        /\ \A s \in MaximalCands : SelS <= s
        /\ \A c \in Orders(counts) :
              /\ IAR_Best(c, SelW).best_s = SelS
              /\ IAR_Best(c, SelW).best_sum = Val(sel).best_sum
        /\ \A p \in Orders(input) :
              IAR_Best(FilteredStats(p).counts, SelW).best_s = SelS

\* two candidates tie for the largest total, the selected one is the lower,
\* and the sample of the higher bucket arrived first
C21_Witness ==
    /\ WindowDone /\ args.window_strategy = "best"
    /\ Cardinality(MaximalCands) >= 2
    /\ SelS = SetMin(MaximalCands)
    /\ Len(counts) >= 2 /\ counts[1].k > counts[2].k
    /\ SetMax(MaximalCands) = counts[1].k

=============================================================================
